---- MODULE Spec2Model ----
(***************************************************************************)
(* State-machine model of the ChatbotPage React component                  *)
(* (src/unnamed/part_002, the current revision of                          *)
(* src/test-ui/app/routes/ChatbotPage.tsx): the analysis task lifecycle    *)
(* (submit, interval polling, terminal result / error) and the streaming   *)
(* chat layered on top of it.                                              *)
(*                                                                         *)
(* Text is modelled as a sequence of tokens (a token is an opaque piece    *)
(* of text, " " is the whitespace token); string concatenation is \o.      *)
(* The user-visible Chinese literals of the source are written in ASCII    *)
(* (TLA+ strings are ASCII); each constant names the source line it        *)
(* stands for.  Every handler continuation between two awaits is one       *)
(* atomic step followed by the re-run of the poll effect, as React         *)
(* commits it.                                                             *)
(***************************************************************************)
EXTENDS Integers, Sequences, FiniteSets, TLC

\* ------------------------------------------------------------------ bounds
MaxSubmits == 3      \* submission requests issued in one run
MaxPolls   == 2      \* status requests issued in one run
MaxTurns   == 2      \* chat turns started in one run
MaxChunks  == 2      \* stream chunks delivered in one run
MaxClock   == 1      \* readings of Date.now() beyond the first
MaxHistory == 4      \* chat turns a transcript holds before the run starts
MaxFiles   == 3      \* files the uploaded-file list holds

\* ------------------------------------------------- JavaScript value helpers
NULL      == <<"<null>">>
UNDEFINED == <<"<undefined>">>

\* JS truthiness of a string | null | undefined
Truthy(s) == s # NULL /\ s # UNDEFINED /\ s # <<>>

\* a || b
OrElse(a, b) == IF Truthy(a) THEN a ELSE b

IsSpace(c) == c = " "

RECURSIVE TrimStart(_)
TrimStart(s) == IF s = <<>> THEN <<>>
                ELSE IF IsSpace(Head(s)) THEN TrimStart(Tail(s)) ELSE s

RECURSIVE TrimEnd(_)
TrimEnd(s) == IF s = <<>> THEN <<>>
              ELSE IF IsSpace(s[Len(s)]) THEN TrimEnd(SubSeq(s, 1, Len(s) - 1)) ELSE s

\* String.prototype.trim
Trim(s) == TrimEnd(TrimStart(s))

\* error instanceof Error ? error.message : dflt
ErrorMessageOf(err, dflt) == IF err.isError THEN err.message ELSE dflt

\* new Error(m), as a thrown value
NewError(m) == [raised |-> TRUE, isError |-> TRUE, message |-> m]

\* the try block ran through
NoThrow == [raised |-> FALSE, isError |-> FALSE, message |-> NULL]

\* ------------------------------------------------------- program constants
BACKEND_URL == <<"http://localhost:5001">>

InitialRequirements == <<"Generate the May hand-hygiene training and assessment report">>
MsgClickToStart     == <<"Click the button to start analysing the document.">>
MsgRequesting       == <<"Requesting the start of the analysis...">>
MsgEmptyRequirement == <<"The report requirement must not be empty.">>
MsgEnterRequirement == <<"Enter the report requirement and retry.">>
MsgTaskStarted      == <<"Analysis task started, processing...">>
MsgStartFailedDflt  == <<"Starting the analysis failed, check the backend service.">>
MsgStartFailed      == <<"Starting the analysis failed.">>
MsgFetchingStatus   == <<"Fetching status...">>
MsgDoneContent      == <<"Analysis completed, report content loaded!">>
MsgDoneLink         == <<"Analysis completed, report link obtained!">>
MsgDoneNoOutput     == <<"Analysis completed, but no report output was found.">>
MsgUnknownFailure   == <<"An unknown error occurred during the analysis.">>
MsgAnalysisFailed   == <<"Analysis failed.">>
MsgTaskWaiting      == <<"The task is waiting to be executed...">>
MsgStatusFailedDflt == <<"Fetching the analysis status failed.">>
MsgStatusError      == <<"Error while fetching the analysis status.">>
MsgSending          == <<"Sending the message to the model...">>
MsgThinking         == <<"The model is thinking...">>
MsgReplied          == <<"The model has replied.">>
MsgChatFailedDflt   == <<"Communication with the model failed or the reply could not be processed.">>
MsgChatFailed       == <<"Sending the message or processing the reply failed.">>
ErrorPrefix         == <<"Error: ">>

\* `HTTP error! status: ${response.status}`
HttpErrorText(status) == <<"HTTP error! status: ", ToString(status)>>

\* the template literal of the 404 branch, which embeds the task identifier
NotFoundText(tid) ==
    <<"Task ID ">> \o tid \o <<" not found. It may have expired or the backend was restarted.">>

\* what the runtime throws: fetch() rejecting, Response.json() on a non-JSON body
NetworkError == NewError(<<"Failed to fetch">>)
JsonError    == NewError(<<"Unexpected token < in JSON">>)

\* ------------------------------------------------------------- input domains
Prompts  == { <<>>, <<" ">>, InitialRequirements }      \* typed report requirement
Inputs   == { <<>>, <<" ">>, <<"why?">> }               \* typed chat input
TaskIds  == { <<"abc123">>, <<"def456">> }          \* identifiers the backend assigns
Deltas   == { <<>>, <<"Hi">> }                          \* text deltas of a stream chunk
\* File objects: two of them share a name
Files    == { [name |-> "a.pdf", size |-> 1], [name |-> "a.pdf", size |-> 2],
              [name |-> "b.txt", size |-> 1] }
\* a FileList of the picker or of a drop
FileLists == {<<>>} \cup { <<f>> : f \in Files } \cup { <<f, g>> : f \in Files, g \in Files }

\* response.ok
Ok(resp) == resp.status >= 200 /\ resp.status <= 299

\* A response of POST /api/start-analysis: `net` is fetch() rejecting, `json`
\* is whether the body parses, `body` the parsed JSON.
SubmitResponses ==
    [net : {FALSE}, status : {200}, json : {TRUE},
     body : [task_id : TaskIds, error : {UNDEFINED}]]
    \cup
    [net : {FALSE}, status : {500}, json : {TRUE},
     body : [task_id : {UNDEFINED}, error : {UNDEFINED, <<"bad request">>}]]
    \cup
    [net : {FALSE}, status : {500}, json : {FALSE},
     body : [task_id : {UNDEFINED}, error : {UNDEFINED}]]
    \cup
    [net : {TRUE}, status : {0}, json : {FALSE},
     body : [task_id : {UNDEFINED}, error : {UNDEFINED}]]

\* type BackendTaskActualStatus
BackendStatuses == {"pending", "processing", "completed", "failed"}

\* TaskStatusResponse, plus the `error` member of an error body.  The result
\* members vary on a completed task and error_details on a failed one; the
\* callback reads them in no other case.
StatusBodies ==
    [status        : {"completed"},
     message       : {<<>>, <<"working">>},
     html_url      : {UNDEFINED, <<"/reports/r.html">>},
     html_content  : {UNDEFINED, <<>>, <<"<h1>OK</h1>">>},
     error_details : {UNDEFINED},
     error         : {UNDEFINED}]
    \cup
    [status        : {"failed"},
     message       : {<<>>, <<"working">>},
     html_url      : {UNDEFINED},
     html_content  : {UNDEFINED},
     error_details : {UNDEFINED, <<>>, <<"parse error">>},
     error         : {UNDEFINED}]
    \cup
    [status        : BackendStatuses \ {"completed", "failed"},
     message       : {<<>>, <<"working">>},
     html_url      : {UNDEFINED},
     html_content  : {UNDEFINED},
     error_details : {UNDEFINED},
     error         : {UNDEFINED}]

ErrorBodies ==
    [status        : {"failed"},
     message       : {<<>>},
     html_url      : {UNDEFINED},
     html_content  : {UNDEFINED},
     error_details : {UNDEFINED},
     error         : {UNDEFINED, <<"server exploded">>}]

\* A response of GET /api/analysis-status/{task_id}
PollResponses ==
    [net : {FALSE}, status : {200}, json : {TRUE}, body : StatusBodies]
    \cup
    [net : {FALSE}, status : {500}, json : {TRUE}, body : ErrorBodies]
    \cup
    [net : {FALSE}, status : {404, 500}, json : {FALSE},
     body : {b \in ErrorBodies : b.error = UNDEFINED}]
    \cup
    [net : {TRUE}, status : {0}, json : {FALSE},
     body : {b \in ErrorBodies : b.error = UNDEFINED}]

\* ------------------------------------------------------------------- state
VARIABLES
    analysisStatus,          \* useState<FrontendAnalysisStatus>
    taskId,                  \* useState<string | null>
    analysisResultUrl,       \* useState<string | null>
    htmlReportContent,       \* useState<string | null>
    statusMessage,           \* useState<string>
    errorMessage,            \* useState<string | null>
    chatMessages,            \* useState<{id, sender, text}[]>
    userInput,               \* useState('')
    reportRequirementsInput, \* useState(...)
    uploadedFiles,           \* useState<File[]>([])
    mounted,                 \* the component has not been torn down
    timer,                   \* the interval the poll effect holds, or NoTimer
    nextIntervalId,          \* the next handle setInterval returns
    submitsInFlight,         \* start-analysis requests awaiting their response
    pollsInFlight,           \* status requests awaiting their response
    turns,                   \* chat turns whose handler has not returned
    now,                     \* the reading of Date.now()
    submitCalls,             \* requests issued to /api/start-analysis
    pollCalls,               \* requests issued to /api/analysis-status
    chatCalls,               \* requests issued to the chat completion API
    chunkCalls,              \* chunks the chat streams have delivered
    lastOp                   \* the handler step (call, callback or resumption)
                             \* taken last, with its input

taskVars == <<analysisStatus, taskId, analysisResultUrl, htmlReportContent,
              statusMessage, errorMessage>>
chatVars == <<chatMessages, userInput, turns, chatCalls, chunkCalls>>
pollVars == <<timer, nextIntervalId, pollsInFlight, pollCalls>>
vars == <<analysisStatus, taskId, analysisResultUrl, htmlReportContent,
          statusMessage, errorMessage, chatMessages, userInput,
          reportRequirementsInput, uploadedFiles, mounted, timer, nextIntervalId,
          submitsInFlight, pollsInFlight, turns, now, submitCalls, pollCalls,
          chatCalls, chunkCalls, lastOp>>

NoTimer == [id |-> 0, taskId |-> NULL]

\* the task-lifecycle part of the React state, as one record
TaskState ==
    [analysisStatus    |-> analysisStatus,
     taskId            |-> taskId,
     analysisResultUrl |-> analysisResultUrl,
     htmlReportContent |-> htmlReportContent,
     statusMessage     |-> statusMessage,
     errorMessage      |-> errorMessage]

\* commit a task-lifecycle record to the React state
SetTaskState(s) ==
    /\ analysisStatus'    = s.analysisStatus
    /\ taskId'            = s.taskId
    /\ analysisResultUrl' = s.analysisResultUrl
    /\ htmlReportContent' = s.htmlReportContent
    /\ statusMessage'     = s.statusMessage
    /\ errorMessage'      = s.errorMessage

Init ==
    /\ analysisStatus = "idle"
    /\ taskId = NULL
    /\ analysisResultUrl = NULL
    /\ htmlReportContent = NULL
    /\ statusMessage = MsgClickToStart
    /\ errorMessage = NULL
    /\ chatMessages = <<>>
    /\ userInput = <<>>
    /\ reportRequirementsInput = InitialRequirements
    /\ uploadedFiles = <<>>
    /\ mounted = TRUE
    /\ timer = NoTimer
    /\ nextIntervalId = 1
    /\ submitsInFlight = {}
    /\ pollsInFlight = {}
    /\ turns = {}
    /\ now = 0
    /\ submitCalls = 0
    /\ pollCalls = 0
    /\ chatCalls = 0
    /\ chunkCalls = 0
    /\ lastOp = [op |-> "init", in |-> NULL]

\* ------------------------------------------------------------ poll effect
\* The condition under which the poll effect creates an interval.
PollCondition(tid, status) == Truthy(tid) /\ status \in {"processing", "loading"}

\* RunPollEffect of an effect that returns no cleanup: an interval, once
\* created, is only ever cleared by a callback's own clearInterval
RunPollEffect_NoCleanup(t) ==
    LET changed == taskId' # taskId \/ analysisStatus' # analysisStatus
        create  == changed /\ PollCondition(taskId', analysisStatus')
    IN /\ timer' = IF create THEN [id |-> nextIntervalId, taskId |-> taskId'] ELSE t
       /\ nextIntervalId' = IF create THEN nextIntervalId + 1 ELSE nextIntervalId

\* RunPollEffect whose re-run, finding an interval held, keeps it instead of
\* cancelling it and creating the one of the new dependencies
RunPollEffect_KeepOnRerun(t) ==
    LET changed == taskId' # taskId \/ analysisStatus' # analysisStatus
        create  == changed /\ PollCondition(taskId', analysisStatus') /\ t = NoTimer
    IN /\ timer' = IF ~changed THEN t
                   ELSE IF create THEN [id |-> nextIntervalId, taskId |-> taskId']
                   ELSE IF PollCondition(taskId', analysisStatus') THEN t
                   ELSE NoTimer
       /\ nextIntervalId' = IF create THEN nextIntervalId + 1 ELSE nextIntervalId

\* useEffect(..., [taskId, analysisStatus]) after a commit: `t` is the interval
\* held once the handler's own clearInterval calls are applied.  When a
\* dependency changed the cleanup clears the held interval and the effect body
\* runs again.
RunPollEffect(t) ==
    LET changed == taskId' # taskId \/ analysisStatus' # analysisStatus
        create  == changed /\ PollCondition(taskId', analysisStatus')
    IN /\ timer' = IF ~changed THEN t
                   ELSE IF create THEN [id |-> nextIntervalId, taskId |-> taskId']
                   ELSE NoTimer
       /\ nextIntervalId' = IF create THEN nextIntervalId + 1 ELSE nextIntervalId

\* clearInterval(id) applied to the held interval
ClearInterval(t, id) == IF t.id = id THEN NoTimer ELSE t

\* ---------------------------------------------------- handleStartAnalysis
\* StartAnalysisSync testing the prompt without trim()
StartAnalysisSync_NoTrim(s, prompt) ==
    LET cleared == [s EXCEPT !.analysisStatus = "loading",
                             !.statusMessage = MsgRequesting,
                             !.errorMessage = NULL,
                             !.analysisResultUrl = NULL,
                             !.htmlReportContent = NULL]
    IN IF ~Truthy(prompt)
       THEN [state |-> [cleared EXCEPT !.analysisStatus = "idle",
                                       !.errorMessage = MsgEmptyRequirement,
                                       !.statusMessage = MsgEnterRequirement],
             fetch |-> FALSE]
       ELSE [state |-> cleared, fetch |-> TRUE]

\* The synchronous part, up to the fetch: the new task state and whether the
\* request is issued.
StartAnalysisSync(s, prompt) ==
    LET cleared == [s EXCEPT !.analysisStatus = "loading",
                             !.statusMessage = MsgRequesting,
                             !.errorMessage = NULL,
                             !.analysisResultUrl = NULL,
                             !.htmlReportContent = NULL]
    IN IF ~Truthy(Trim(prompt))
       THEN [state |-> [cleared EXCEPT !.analysisStatus = "idle",
                                       !.errorMessage = MsgEmptyRequirement,
                                       !.statusMessage = MsgEnterRequirement],
             fetch |-> FALSE]
       ELSE [state |-> cleared, fetch |-> TRUE]

\* What the try block throws for a response, or NoThrow when it runs through.
StartAnalysisThrown(resp) ==
    IF resp.net THEN NetworkError
    ELSE IF ~Ok(resp)
         THEN IF ~resp.json THEN JsonError
              ELSE NewError(OrElse(resp.body.error, HttpErrorText(resp.status)))
         ELSE IF ~resp.json THEN JsonError ELSE NoThrow

\* StartAnalysisResume whose catch block leaves the status at loading
StartAnalysisResume_NoErrorStatus(s, resp) ==
    LET thrown == StartAnalysisThrown(resp)
    IN IF ~thrown.raised
       THEN [s EXCEPT !.taskId = resp.body.task_id,
                      !.analysisStatus = "processing",
                      !.statusMessage = MsgTaskStarted]
       ELSE [s EXCEPT !.errorMessage = ErrorMessageOf(thrown, MsgStartFailedDflt),
                      !.statusMessage = MsgStartFailed]

\* The continuation after the awaits: success path or catch block.
StartAnalysisResume(s, resp) ==
    LET thrown == StartAnalysisThrown(resp)
    IN IF ~thrown.raised
       THEN [s EXCEPT !.taskId = resp.body.task_id,
                      !.analysisStatus = "processing",
                      !.statusMessage = MsgTaskStarted]
       ELSE [s EXCEPT !.analysisStatus = "error",
                      !.errorMessage = ErrorMessageOf(thrown, MsgStartFailedDflt),
                      !.statusMessage = MsgStartFailed]

\* handleStartAnalysis() up to its first await
handleStartAnalysis ==
    LET r == StartAnalysisSync(TaskState, reportRequirementsInput)
    IN /\ mounted
       /\ r.fetch => submitCalls < MaxSubmits
       /\ SetTaskState(r.state)
       /\ RunPollEffect(timer)
       /\ IF r.fetch
          THEN /\ submitCalls' = submitCalls + 1
               /\ submitsInFlight' = submitsInFlight \cup
                     {[seq |-> submitCalls + 1, prompt |-> reportRequirementsInput]}
          ELSE UNCHANGED <<submitCalls, submitsInFlight>>
       /\ lastOp' = [op |-> "handleStartAnalysis", in |-> reportRequirementsInput]
       /\ UNCHANGED <<chatVars, reportRequirementsInput, mounted, uploadedFiles, pollsInFlight,
                      pollCalls, now>>

\* the response of a start-analysis request arrives and the handler resumes
StartAnalysisResponse ==
    \E req \in submitsInFlight, resp \in SubmitResponses :
       /\ mounted
       /\ submitsInFlight' = submitsInFlight \ {req}
       /\ SetTaskState(StartAnalysisResume(TaskState, resp))
       /\ RunPollEffect(timer)
       /\ lastOp' = [op |-> "StartAnalysisResponse", in |-> resp]
       /\ UNCHANGED <<chatVars, reportRequirementsInput, mounted, uploadedFiles, pollsInFlight,
                      pollCalls, submitCalls, now>>

\* ------------------------------------------------ poll cycle (setInterval)
\* What the callback's try block throws for a response to the request for
\* task `tid`, or NoThrow.
PollThrown(resp, tid) ==
    IF resp.net THEN NetworkError
    ELSE IF ~Ok(resp)
         THEN IF resp.status = 404 THEN NewError(NotFoundText(tid))
              ELSE IF ~resp.json THEN JsonError
              ELSE NewError(OrElse(resp.body.error, HttpErrorText(resp.status)))
         ELSE IF ~resp.json THEN JsonError ELSE NoThrow

\* PollCompleted testing html_url before html_content
PollCompleted_UrlFirst(s, data) ==
    LET r == IF Truthy(data.html_url)
             THEN [s EXCEPT !.analysisResultUrl = BACKEND_URL \o data.html_url,
                            !.htmlReportContent = NULL,
                            !.statusMessage = OrElse(data.message, MsgDoneLink)]
             ELSE IF Truthy(data.html_content)
             THEN [s EXCEPT !.htmlReportContent = data.html_content,
                            !.analysisResultUrl = NULL,
                            !.statusMessage = OrElse(data.message, MsgDoneContent)]
             ELSE [s EXCEPT !.statusMessage = OrElse(data.message, MsgDoneNoOutput)]
    IN [r EXCEPT !.analysisStatus = "success", !.taskId = NULL]

\* PollCompleted storing html_url as received, without the backend address
PollCompleted_RawUrl(s, data) ==
    LET r == IF Truthy(data.html_content)
             THEN [s EXCEPT !.htmlReportContent = data.html_content,
                            !.analysisResultUrl = NULL,
                            !.statusMessage = OrElse(data.message, MsgDoneContent)]
             ELSE IF Truthy(data.html_url)
             THEN [s EXCEPT !.analysisResultUrl = data.html_url,
                            !.htmlReportContent = NULL,
                            !.statusMessage = OrElse(data.message, MsgDoneLink)]
             ELSE [s EXCEPT !.statusMessage = OrElse(data.message, MsgDoneNoOutput)]
    IN [r EXCEPT !.analysisStatus = "success", !.taskId = NULL]
\* PollCompleted setting the field of its branch and leaving the other
\* field as it was
PollCompleted_KeepOther(s, data) ==
    LET r == IF Truthy(data.html_content)
             THEN [s EXCEPT !.htmlReportContent = data.html_content,
                            !.statusMessage = OrElse(data.message, MsgDoneContent)]
             ELSE IF Truthy(data.html_url)
             THEN [s EXCEPT !.analysisResultUrl = BACKEND_URL \o data.html_url,
                            !.statusMessage = OrElse(data.message, MsgDoneLink)]
             ELSE [s EXCEPT !.statusMessage = OrElse(data.message, MsgDoneNoOutput)]
    IN [r EXCEPT !.analysisStatus = "success", !.taskId = NULL]

\* PollCompleted treating a completed task without any report as a failure
PollCompleted_NoOutputFails(s, data) ==
    LET r == IF Truthy(data.html_content)
             THEN [s EXCEPT !.htmlReportContent = data.html_content,
                            !.analysisResultUrl = NULL,
                            !.statusMessage = OrElse(data.message, MsgDoneContent)]
             ELSE IF Truthy(data.html_url)
             THEN [s EXCEPT !.analysisResultUrl = BACKEND_URL \o data.html_url,
                            !.htmlReportContent = NULL,
                            !.statusMessage = OrElse(data.message, MsgDoneLink)]
             ELSE [s EXCEPT !.statusMessage = OrElse(data.message, MsgDoneNoOutput),
                            !.errorMessage = MsgDoneNoOutput]
    IN [r EXCEPT !.analysisStatus =
                     IF Truthy(data.html_content) \/ Truthy(data.html_url)
                     THEN "success" ELSE "error",
                 !.taskId = NULL]

\* data.status === 'completed'
PollCompleted(s, data) ==
    LET r == IF Truthy(data.html_content)
             THEN [s EXCEPT !.htmlReportContent = data.html_content,
                            !.analysisResultUrl = NULL,
                            !.statusMessage = OrElse(data.message, MsgDoneContent)]
             ELSE IF Truthy(data.html_url)
             THEN [s EXCEPT !.analysisResultUrl = BACKEND_URL \o data.html_url,
                            !.htmlReportContent = NULL,
                            !.statusMessage = OrElse(data.message, MsgDoneLink)]
             ELSE [s EXCEPT !.statusMessage = OrElse(data.message, MsgDoneNoOutput)]
    IN [r EXCEPT !.analysisStatus = "success", !.taskId = NULL]

\* FailedErrorText preferring message over error_details
FailedErrorText_MessageFirst(data) ==
    OrElse(data.message, OrElse(data.error_details, MsgUnknownFailure))

\* the error stored for data.status === 'failed'
FailedErrorText(data) ==
    OrElse(data.error_details, OrElse(data.message, MsgUnknownFailure))

\* data.status === 'failed'
PollFailed(s, data) ==
    [s EXCEPT !.analysisStatus = "error",
              !.errorMessage = FailedErrorText(data),
              !.statusMessage = OrElse(data.message, MsgAnalysisFailed),
              !.taskId = NULL]

\* PollCatch without setTaskId(null)
PollCatch_KeepTask(s, thrown) ==
    [s EXCEPT !.analysisStatus = "error",
              !.errorMessage = ErrorMessageOf(thrown, MsgStatusFailedDflt),
              !.statusMessage = MsgStatusError]

\* the catch block of the callback
PollCatch(s, thrown) ==
    [s EXCEPT !.analysisStatus = "error",
              !.errorMessage = ErrorMessageOf(thrown, MsgStatusFailedDflt),
              !.statusMessage = MsgStatusError,
              !.taskId = NULL]

\* The callback after its awaits: the new task state and whether it calls
\* clearInterval(intervalId) on the interval that issued the request.
PollResume(s, resp, tid) ==
    LET thrown == PollThrown(resp, tid)
        data   == resp.body
        s1     == [s EXCEPT !.statusMessage = OrElse(data.message, MsgFetchingStatus)]
    IN IF thrown.raised
       THEN [state |-> PollCatch(s, thrown), clear |-> TRUE]
       ELSE IF data.status = "completed"
       THEN [state |-> PollCompleted(s1, data), clear |-> TRUE]
       ELSE IF data.status = "failed"
       THEN [state |-> PollFailed(s1, data), clear |-> TRUE]
       ELSE IF data.status = "processing"
       THEN [state |-> [s1 EXCEPT !.analysisStatus = "processing"], clear |-> FALSE]
       ELSE IF data.status = "pending"
       THEN [state |-> [s1 EXCEPT !.analysisStatus = "processing",
                                  !.statusMessage = OrElse(data.message, MsgTaskWaiting)],
             clear |-> FALSE]
       ELSE [state |-> s1, clear |-> FALSE]

\* The interval fires: the callback starts and issues its status request,
\* whether or not an earlier request is still awaiting its response.
TimerTick ==
    /\ mounted
    /\ timer # NoTimer
    /\ pollCalls < MaxPolls
    /\ pollCalls' = pollCalls + 1
    /\ pollsInFlight' = pollsInFlight \cup
          {[seq |-> pollCalls + 1, intervalId |-> timer.id, taskId |-> timer.taskId]}
    /\ lastOp' = [op |-> "TimerTick", in |-> timer.taskId]
    /\ UNCHANGED <<taskVars, chatVars, reportRequirementsInput, mounted, uploadedFiles, timer,
                   nextIntervalId, submitsInFlight, submitCalls, now>>

\* the response of a status request arrives and its callback resumes
PollResponse ==
    \E req \in pollsInFlight, resp \in PollResponses :
       LET r == PollResume(TaskState, resp, req.taskId)
       IN /\ mounted
          /\ pollsInFlight' = pollsInFlight \ {req}
          /\ SetTaskState(r.state)
          /\ RunPollEffect(IF r.clear THEN ClearInterval(timer, req.intervalId)
                           ELSE timer)
          /\ lastOp' = [op |-> "PollResponse", in |-> resp, req |-> req]
          /\ UNCHANGED <<chatVars, reportRequirementsInput, mounted, uploadedFiles, pollCalls,
                         submitsInFlight, submitCalls, now>>

\* ------------------------------------------------------ handleSendMessage
SystemPromptInline(html) ==
    <<"You are an AI assistant. The user is viewing an HTML analysis report ... The actual HTML content is: ">>
    \o html

SystemPromptLink(url) ==
    <<"You are an AI assistant. The user has analyzed a document, and the analysis report is available at: ">>
    \o url \o <<". Please answer questions based on this document ...">>

\* the optional system entry at the head of apiMessages
SystemMessages(html, url) ==
    IF Truthy(html) THEN << [role |-> "system", content |-> SystemPromptInline(html)] >>
    ELSE IF Truthy(url) THEN << [role |-> "system", content |-> SystemPromptLink(url)] >>
    ELSE << >>

\* Array.prototype.slice(-n)
SliceLast(seq, n) == SubSeq(seq, IF Len(seq) > n THEN Len(seq) - n + 1 ELSE 1, Len(seq))

NonEmptyText(msg) == Trim(msg.text) # <<>>

RECURSIVE HistoryEntries(_)
\* the forEach over the history: user -> user, bot -> assistant, others skipped
HistoryEntries(msgs) ==
    IF msgs = <<>> THEN <<>>
    ELSE LET m == Head(msgs)
         IN (IF m.sender = "user" THEN << [role |-> "user", content |-> m.text] >>
             ELSE IF m.sender = "bot" THEN << [role |-> "assistant", content |-> m.text] >>
             ELSE << >>)
            \o HistoryEntries(Tail(msgs))

\* number of history messages a chat request carries (slice(-6))
HistoryWindow == 6

\* ApiMessages taking the last six entries first and dropping the blank
\* ones afterwards: slice(-6).filter(...)
ApiMessages_SliceFirst(html, url, msgs, input) ==
    SystemMessages(html, url)
    \o HistoryEntries(SelectSeq(SliceLast(msgs, HistoryWindow), NonEmptyText))
    \o << [role |-> "user", content |-> input] >>

\* apiMessages of a turn, built from the transcript before the turn
ApiMessages(html, url, msgs, input) ==
    SystemMessages(html, url)
    \o HistoryEntries(SliceLast(SelectSeq(msgs, NonEmptyText), HistoryWindow))
    \o << [role |-> "user", content |-> input] >>

UserMessageId(t) == <<"user-", ToString(t)>>
BotMessageId(t)  == <<"bot-", ToString(t)>>

\* ReplaceText matching an entry by the clock reading in its id rather than
\* by the whole id
ReplaceText_ByReading(msgs, id, text) ==
    [i \in DOMAIN msgs |-> IF msgs[i].id[2] = id[2] THEN [msgs[i] EXCEPT !.text = text]
                           ELSE msgs[i]]

\* prevMessages.map(msg => msg.id === id ? {...msg, text} : msg)
ReplaceText(msgs, id, text) ==
    [i \in DOMAIN msgs |-> IF msgs[i].id = id THEN [msgs[i] EXCEPT !.text = text]
                           ELSE msgs[i]]

ChatErrors == { NewError(<<"Connection error.">>) }

\* NewEntries with the placeholder appended ahead of the user's entry
NewEntries_BotFirst(t, u, input) ==
    << [id |-> BotMessageId(u), sender |-> "bot", text |-> <<>>],
       [id |-> UserMessageId(t), sender |-> "user", text |-> input] >>

\* the entries a call appends: newUserMessage, then the bot placeholder
NewEntries(t, u, input) ==
    << [id |-> UserMessageId(t), sender |-> "user", text |-> input],
       [id |-> BotMessageId(u), sender |-> "bot", text |-> <<>>] >>

\* handleSendMessage() up to its first await; `t` and `u` are the readings of
\* Date.now() for the user entry's id and, later in the call, the bot entry's
handleSendMessage ==
    /\ mounted
    /\ IF ~Truthy(Trim(userInput))
       THEN /\ lastOp' = [op |-> "handleSendMessage", in |-> userInput, sent |-> FALSE]
            /\ UNCHANGED <<taskVars, chatVars, now>>
       ELSE \E t \in now .. MaxClock : \E u \in t .. MaxClock :
            /\ chatCalls < MaxTurns
            /\ now' = u
            /\ chatMessages' = chatMessages \o NewEntries(t, u, userInput)
            /\ userInput' = <<>>
            /\ statusMessage' = MsgThinking
            /\ errorMessage' = NULL
            /\ chatCalls' = chatCalls + 1
            /\ turns' = turns \cup
                  {[seq |-> chatCalls + 1,
                    botMessageId |-> BotMessageId(u),
                    entry |-> Len(chatMessages) + 2,
                    accumulatedBotText |-> <<>>,
                    streamed |-> <<>>]}
            /\ lastOp' = [op |-> "handleSendMessage", in |-> userInput, sent |-> TRUE,
                          messages |-> ApiMessages(htmlReportContent, analysisResultUrl,
                                                   chatMessages, userInput)]
            /\ UNCHANGED <<analysisStatus, taskId, analysisResultUrl, htmlReportContent,
                           chunkCalls>>
    /\ UNCHANGED <<reportRequirementsInput, mounted, uploadedFiles, pollVars, submitsInFlight,
                   submitCalls>>

\* accumulatedBotText += contentDelta, with the accumulation spelled out so
\* that the contrast with a plain assignment is a definition
Accumulate_Overwrite(accumulatedBotText, contentDelta) == contentDelta

Accumulate(accumulatedBotText, contentDelta) == accumulatedBotText \o contentDelta

\* a chunk of the stream arrives: one iteration of the for-await loop.  The
\* turn records, beside the handler's locals, where its placeholder stands in
\* the transcript (entry) and the deltas its stream delivered (streamed).
ChatChunk ==
    \E turn \in turns, delta \in Deltas \cup {UNDEFINED} :
       LET contentDelta == OrElse(delta, <<>>)
           text == Accumulate(turn.accumulatedBotText, contentDelta)
       IN /\ mounted
          /\ chunkCalls < MaxChunks
          /\ chunkCalls' = chunkCalls + 1
          /\ turns' = (turns \ {turn}) \cup
                {[turn EXCEPT !.streamed = IF delta = UNDEFINED THEN @ ELSE @ \o delta,
                              !.accumulatedBotText =
                                  IF Truthy(contentDelta) THEN text ELSE @]}
          /\ chatMessages' = IF Truthy(contentDelta)
                             THEN ReplaceText(chatMessages, turn.botMessageId, text)
                             ELSE chatMessages
          /\ lastOp' = [op |-> "ChatChunk", in |-> delta, turn |-> turn.seq]
          /\ UNCHANGED <<taskVars, userInput, chatCalls, reportRequirementsInput,
                         mounted, uploadedFiles, pollVars, submitsInFlight, submitCalls, now>>

\* the stream ends: the loop exits and the handler returns
ChatEnd ==
    \E turn \in turns :
       /\ mounted
       /\ turns' = turns \ {turn}
       /\ statusMessage' = MsgReplied
       /\ lastOp' = [op |-> "ChatEnd", in |-> NULL, turn |-> turn.seq]
       /\ UNCHANGED <<analysisStatus, taskId, analysisResultUrl, htmlReportContent,
                      errorMessage, chatMessages, userInput, chatCalls, chunkCalls,
                      reportRequirementsInput, mounted, uploadedFiles, pollVars, submitsInFlight,
                      submitCalls, now>>

\* the text the catch block writes into the bot entry
ChatErrorText(thrown) == ErrorPrefix \o ErrorMessageOf(thrown, MsgChatFailedDflt)

\* ChatCatch that also ends the task in error, as the catch block of the
\* poll callback does
ChatCatch_EndsTask(s, thrown) ==
    [s EXCEPT !.analysisStatus = "error",
              !.statusMessage = MsgChatFailed,
              !.errorMessage = ErrorMessageOf(thrown, MsgChatFailedDflt)]

\* what the catch block of handleSendMessage writes beside the transcript
ChatCatch(s, thrown) ==
    [s EXCEPT !.statusMessage = MsgChatFailed,
              !.errorMessage = ErrorMessageOf(thrown, MsgChatFailedDflt)]

\* the request or the stream fails: the catch block
ChatError ==
    \E turn \in turns, thrown \in ChatErrors :
       /\ mounted
       /\ turns' = turns \ {turn}
       /\ chatMessages' = ReplaceText(chatMessages, turn.botMessageId,
                                      ChatErrorText(thrown))
       /\ SetTaskState(ChatCatch(TaskState, thrown))
       /\ lastOp' = [op |-> "ChatError", in |-> thrown, turn |-> turn.seq]
       /\ UNCHANGED <<userInput, chatCalls, chunkCalls, reportRequirementsInput,
                      mounted, uploadedFiles, pollVars, submitsInFlight, submitCalls, now>>

\* ------------------------------------------------------------- the rendering
\* {analysisStatus !== 'success' && (<> textarea, upload area, start button </>)}
StartSectionRendered == analysisStatus # "success"

\* the start button's disabled attribute
StartButtonDisabled ==
    \/ analysisStatus = "loading"
    \/ analysisStatus = "processing"
    \/ ~Truthy(Trim(reportRequirementsInput))

\* {analysisStatus === 'success' && (<section> chat </section>)}
ChatSectionRendered == analysisStatus = "success"

\* the send button's disabled attribute
SendButtonDisabled == ~Truthy(Trim(userInput)) \/ analysisStatus # "success"

\* ------------------------------------------------------------ user actions
\* onChange of the requirements textarea
TypeRequirements ==
    \E p \in Prompts :
       /\ mounted /\ StartSectionRendered
       /\ p # reportRequirementsInput
       /\ reportRequirementsInput' = p
       /\ UNCHANGED <<lastOp, taskVars, chatVars, mounted, uploadedFiles, pollVars, submitsInFlight,
                      submitCalls, now>>

\* onChange of the chat input
TypeUserInput ==
    \E u \in Inputs :
       /\ mounted /\ ChatSectionRendered
       /\ u # userInput
       /\ userInput' = u
       /\ UNCHANGED <<lastOp, taskVars, chatMessages, turns, chatCalls, chunkCalls,
                      reportRequirementsInput, mounted, uploadedFiles, pollVars, submitsInFlight,
                      submitCalls, now>>

\* onClick of the start button
ClickStart ==
    /\ StartSectionRendered
    /\ ~StartButtonDisabled
    /\ handleStartAnalysis

\* onKeyPress Enter in the chat input, which calls the handler whatever the
\* input holds
PressEnter ==
    /\ ChatSectionRendered
    /\ handleSendMessage

\* onClick of the send button
ClickSend ==
    /\ ChatSectionRendered
    /\ ~SendButtonDisabled
    /\ handleSendMessage

\* The component is torn down: the effect cleanup clears the interval.  React
\* ignores the state setters of an unmounted component, so the continuations
\* that resume afterwards change nothing and are not steps of the model.
Unmount ==
    /\ mounted
    /\ mounted' = FALSE
    /\ timer' = NoTimer
    /\ UNCHANGED <<lastOp, taskVars, chatVars, reportRequirementsInput, uploadedFiles,
                   nextIntervalId, pollsInFlight, pollCalls, submitsInFlight,
                   submitCalls, now>>

\* ------------------------------------------------------- file upload handlers
\* what every file handler leaves alone
FileFrame ==
    UNCHANGED <<taskVars, chatVars, reportRequirementsInput, mounted, pollVars,
                submitsInFlight, submitCalls, now>>

\* prevFiles => [...prevFiles, ...Array.from(files)]
AppendFiles(prevFiles, files) == prevFiles \o files

\* onChange of the file input: the picker's FileList (empty when nothing was
\* chosen) is appended
handleFileSelect ==
    \E files \in FileLists :
       /\ mounted /\ StartSectionRendered
       /\ Len(uploadedFiles) + Len(files) <= MaxFiles
       /\ uploadedFiles' = AppendFiles(uploadedFiles, files)
       /\ lastOp' = [op |-> "handleFileSelect", in |-> files]
       /\ FileFrame

\* onDrop of the upload area: a non-empty FileList is appended
handleDrop ==
    \E files \in FileLists :
       /\ mounted /\ StartSectionRendered
       /\ Len(uploadedFiles) + Len(files) <= MaxFiles
       /\ uploadedFiles' = IF Len(files) > 0 THEN AppendFiles(uploadedFiles, files)
                           ELSE uploadedFiles
       /\ lastOp' = [op |-> "handleDrop", in |-> files]
       /\ FileFrame

\* a filter that drops the first file of that name only
RemoveByName_FirstOnly(prevFiles, fileName) ==
    LET hits == { i \in 1 .. Len(prevFiles) : prevFiles[i].name = fileName }
    IN IF hits = {} THEN prevFiles
       ELSE LET k == CHOOSE i \in hits : \A h \in hits : i <= h
            IN SubSeq(prevFiles, 1, k - 1) \o SubSeq(prevFiles, k + 1, Len(prevFiles))

\* prevFiles.filter(file => file.name !== fileName)
RemoveByName(prevFiles, fileName) ==
    LET Keep(file) == file.name # fileName
    IN SelectSeq(prevFiles, Keep)

\* onClick of a listed file's remove button
removeFile ==
    \E k \in 1 .. Len(uploadedFiles) :
       LET fileName == uploadedFiles[k].name
       IN /\ mounted /\ StartSectionRendered
          /\ uploadedFiles' = RemoveByName(uploadedFiles, fileName)
          /\ lastOp' = [op |-> "removeFile", in |-> fileName]
          /\ FileFrame

\* ----------------------------------------------------------- specifications
\* The task lifecycle of the component driven through its rendered controls.
Next ==
    \/ TypeRequirements
    \/ ClickStart
    \/ StartAnalysisResponse
    \/ TimerTick
    \/ PollResponse
    \/ Unmount

Spec == Init /\ [][Next]_vars

\* handleStartAnalysis applied to a blank prompt.  This is the handler under
\* test, not a step of the rendered component: the start button is the
\* handler's only caller and is disabled on a blank prompt, so no behaviour of
\* Spec contains this call.  SpecDirect adds it to the component so that the
\* validation branch of the handler is exercised; what holds under SpecDirect
\* holds of the component, while a behaviour of SpecDirect that contains the
\* call is not a behaviour of the component.
CallStartAnalysisBlank ==
    /\ StartSectionRendered
    /\ analysisStatus \notin {"loading", "processing"}
    /\ ~Truthy(Trim(reportRequirementsInput))
    /\ handleStartAnalysis

NextDirect ==
    \/ TypeRequirements
    \/ ClickStart
    \/ CallStartAnalysisBlank
    \/ StartAnalysisResponse
    \/ TimerTick
    \/ PollResponse
    \/ Unmount

SpecDirect == Init /\ [][NextDirect]_vars

\* The chat of a component whose first analysis completed on its first status
\* response: every state the completed branch can leave behind.
InitChat ==
    \E tid \in TaskIds, data \in {b \in StatusBodies : b.status = "completed"} :
       LET okSubmit == [net |-> FALSE, status |-> 200, json |-> TRUE,
                        body |-> [task_id |-> tid, error |-> UNDEFINED]]
           okPoll   == [net |-> FALSE, status |-> 200, json |-> TRUE, body |-> data]
           s0 == [analysisStatus |-> "idle", taskId |-> NULL,
                  analysisResultUrl |-> NULL, htmlReportContent |-> NULL,
                  statusMessage |-> MsgClickToStart, errorMessage |-> NULL]
           s1 == StartAnalysisSync(s0, InitialRequirements).state
           s2 == StartAnalysisResume(s1, okSubmit)
           s3 == PollResume(s2, okPoll, tid).state
       IN /\ analysisStatus = s3.analysisStatus
          /\ taskId = s3.taskId
          /\ analysisResultUrl = s3.analysisResultUrl
          /\ htmlReportContent = s3.htmlReportContent
          /\ statusMessage = s3.statusMessage
          /\ errorMessage = s3.errorMessage
          /\ chatMessages = <<>>
          /\ userInput = <<>>
          /\ reportRequirementsInput = InitialRequirements
          /\ uploadedFiles = <<>>
          /\ mounted = TRUE
          /\ timer = NoTimer
          /\ nextIntervalId = 2
          /\ submitsInFlight = {}
          /\ pollsInFlight = {}
          /\ turns = {}
          /\ now = 0
          /\ submitCalls = 1
          /\ pollCalls = 1
          /\ chatCalls = 0
          /\ chunkCalls = 0
          /\ lastOp = [op |-> "PollResponse", in |-> okPoll,
                       req |-> [seq |-> 1, intervalId |-> 1, taskId |-> tid]]

NextChat ==
    \/ TypeUserInput
    \/ PressEnter
    \/ ClickSend
    \/ ChatChunk
    \/ ChatEnd
    \/ ChatError
    \/ Unmount

SpecChat == InitChat /\ [][NextChat]_vars

\* The chat of a component whose transcript already holds earlier turns, all
\* of them finished: turn k asked <<"q", k>> and was answered <<"a", k>>, by
\* whitespace only, or by nothing at all.  The entries' ids come from clock
\* readings before the run's first one.  The run is the calls of the handler
\* up to their first await; the streams of its turns have delivered nothing yet.
PastTurn(k, n, reply) ==
    << [id |-> UserMessageId(k - n - 1), sender |-> "user",
        text |-> <<"q", ToString(k)>>],
       [id |-> BotMessageId(k - n - 1), sender |-> "bot", text |-> reply] >>

PastReplies(k) == { <<>>, <<" ">>, <<"a", ToString(k)>> }

RECURSIVE PastTranscripts(_, _)
\* the transcripts of turns k..n
PastTranscripts(k, n) ==
    IF k > n THEN { <<>> }
    ELSE { PastTurn(k, n, reply) \o rest :
              reply \in PastReplies(k), rest \in PastTranscripts(k + 1, n) }

InitHistory ==
    \E n \in 0 .. MaxHistory :
    \E past \in PastTranscripts(1, n) :
    \E data \in {b \in StatusBodies : b.status = "completed" /\ b.message = <<>>} :
       LET tid == <<"abc123">>
           okSubmit == [net |-> FALSE, status |-> 200, json |-> TRUE,
                        body |-> [task_id |-> tid, error |-> UNDEFINED]]
           okPoll   == [net |-> FALSE, status |-> 200, json |-> TRUE, body |-> data]
           s0 == [analysisStatus |-> "idle", taskId |-> NULL,
                  analysisResultUrl |-> NULL, htmlReportContent |-> NULL,
                  statusMessage |-> MsgClickToStart, errorMessage |-> NULL]
           s1 == StartAnalysisSync(s0, InitialRequirements).state
           s2 == StartAnalysisResume(s1, okSubmit)
           s3 == PollResume(s2, okPoll, tid).state
       IN /\ analysisStatus = s3.analysisStatus
          /\ taskId = s3.taskId
          /\ analysisResultUrl = s3.analysisResultUrl
          /\ htmlReportContent = s3.htmlReportContent
          /\ statusMessage = IF n = 0 THEN s3.statusMessage ELSE MsgReplied
          /\ errorMessage = s3.errorMessage
          /\ chatMessages = past
          /\ userInput = <<>>
          /\ reportRequirementsInput = InitialRequirements
          /\ uploadedFiles = <<>>
          /\ mounted = TRUE
          /\ timer = NoTimer
          /\ nextIntervalId = 2
          /\ submitsInFlight = {}
          /\ pollsInFlight = {}
          /\ turns = {}
          /\ now = 0
          /\ submitCalls = 1
          /\ pollCalls = 1
          /\ chatCalls = 0
          /\ chunkCalls = 0
          /\ lastOp = IF n = 0
                      THEN [op |-> "PollResponse", in |-> okPoll,
                            req |-> [seq |-> 1, intervalId |-> 1, taskId |-> tid]]
                      ELSE [op |-> "ChatEnd", in |-> NULL, turn |-> 0]

NextHistory ==
    \/ TypeUserInput
    \/ PressEnter
    \/ ClickSend

SpecHistory == InitHistory /\ [][NextHistory]_vars

\* The component with one submission and a backend that answers every status
\* request and has finalized the task by the last request of the run: that
\* request is answered `completed` or `failed`.  The interval keeps firing and
\* every request gets its response (weak fairness).
FinalAnswer(resp) ==
    /\ ~resp.net /\ Ok(resp) /\ resp.json
    /\ resp.body.status \in {"completed", "failed"}

PollResponseFinalizing ==
    /\ PollResponse
    /\ (lastOp'.req.seq = MaxPolls => FinalAnswer(lastOp'.in))

FirstClickStart ==
    /\ submitCalls = 0
    /\ ClickStart

NextLive ==
    \/ TypeRequirements
    \/ FirstClickStart
    \/ StartAnalysisResponse
    \/ TimerTick
    \/ PollResponseFinalizing
    \/ Unmount

SpecLive ==
    /\ Init
    /\ [][NextLive]_vars
    /\ WF_vars(StartAnalysisResponse)
    /\ WF_vars(TimerTick)
    /\ WF_vars(PollResponseFinalizing)

\* The upload area beside the submission: files are chosen, dropped and
\* removed while requirements are typed and submitted.
NextFiles ==
    \/ handleFileSelect
    \/ handleDrop
    \/ removeFile
    \/ TypeRequirements
    \/ ClickStart
    \/ StartAnalysisResponse

SpecFiles == Init /\ [][NextFiles]_vars

\* ===================================================================== claims
\* the last step was the resumption of a poll callback whose response parsed
LastPollParsed ==
    /\ lastOp.op = "PollResponse"
    /\ ~lastOp.in.net /\ Ok(lastOp.in) /\ lastOp.in.json

\* the last step was the resumption of a poll callback whose request failed in
\* transport: fetch rejected or the HTTP status is not a success
LastPollTransportFailure ==
    /\ lastOp.op = "PollResponse"
    /\ (lastOp.in.net \/ ~Ok(lastOp.in))

\* this step consumes the response of a status request
PollResponseStep == pollsInFlight' # pollsInFlight /\ pollCalls' = pollCalls

\* this step consumes the response of a submission request
SubmitResponseStep == submitsInFlight' # submitsInFlight /\ submitCalls' = submitCalls

\* `part` occurs in `text` as a contiguous piece
Contains(text, part) ==
    \E i \in 1 .. (Len(text) - Len(part) + 1) : SubSeq(text, i, i + Len(part) - 1) = part

\* C1: poll requests never overlap: at most one status request is in flight at
\* any time, whatever the response latency relative to the poll interval.
C1_NoOverlappingPolls == Cardinality(pollsInFlight) <= 1

\* C2: once a task is terminal (success or error) and its identifier cleared,
\* no poll response or poll failure arriving later changes analysisStatus, the
\* result fields or the stored error.
C2_TerminalNotResurrected ==
    [][ (/\ analysisStatus \in {"success", "error"}
         /\ taskId = NULL
         /\ PollResponseStep)
        => /\ analysisStatus' = analysisStatus
           /\ analysisResultUrl' = analysisResultUrl
           /\ htmlReportContent' = htmlReportContent
           /\ errorMessage' = errorMessage ]_vars

\* C3: after a poll response `completed` with a non-empty html_content
\* (html_url set or not) the state is success, htmlReportContent is that
\* content, analysisResultUrl is null, no poll timer is held and taskId is null.
C3_CompletedInline ==
    (/\ LastPollParsed
     /\ lastOp.in.body.status = "completed"
     /\ Truthy(lastOp.in.body.html_content))
    => /\ analysisStatus = "success"
       /\ htmlReportContent = lastOp.in.body.html_content
       /\ analysisResultUrl = NULL
       /\ timer = NoTimer
       /\ taskId = NULL

C3_Witness ==
    /\ LastPollParsed
    /\ lastOp.in.body.status = "completed"
    /\ Truthy(lastOp.in.body.html_content)
    /\ Truthy(lastOp.in.body.html_url)
    /\ htmlReportContent = lastOp.in.body.html_content
    /\ pollCalls = 2

\* C4: after a poll response `completed` with a non-empty html_url and no
\* html_content the state is success, analysisResultUrl is the backend base
\* address followed by html_url, htmlReportContent is null, no poll timer is
\* held and taskId is null.
C4_CompletedLink ==
    (/\ LastPollParsed
     /\ lastOp.in.body.status = "completed"
     /\ ~Truthy(lastOp.in.body.html_content)
     /\ Truthy(lastOp.in.body.html_url))
    => /\ analysisStatus = "success"
       /\ analysisResultUrl = <<"http://localhost:5001">> \o lastOp.in.body.html_url
       /\ htmlReportContent = NULL
       /\ timer = NoTimer
       /\ taskId = NULL

C4_Witness ==
    /\ LastPollParsed
    /\ lastOp.in.body.status = "completed"
    /\ lastOp.in.body.html_content = UNDEFINED
    /\ analysisResultUrl = <<"http://localhost:5001", "/reports/r.html">>
    /\ htmlReportContent = NULL

\* C5 as stated: after a poll response `failed` polling has stopped, taskId is
\* null, the status is error and errorMessage is error_details if present,
\* otherwise message.
C5_FailedAsStated ==
    (LastPollParsed /\ lastOp.in.body.status = "failed")
    => /\ timer = NoTimer
       /\ taskId = NULL
       /\ analysisStatus = "error"
       /\ errorMessage = IF lastOp.in.body.error_details # UNDEFINED
                         THEN lastOp.in.body.error_details
                         ELSE lastOp.in.body.message

\* C5 amended: after a poll response `failed` polling has stopped, taskId is
\* null, the status is error and errorMessage is error_details if it is
\* non-empty, otherwise message if it is non-empty, otherwise the fixed text for
\* an unknown failure; the response sets no result field.
C5_Failed ==
    [][ (PollResponseStep /\ lastOp'.in.body.status = "failed"
         /\ ~lastOp'.in.net /\ Ok(lastOp'.in) /\ lastOp'.in.json)
        => /\ timer' = NoTimer
           /\ taskId' = NULL
           /\ analysisStatus' = "error"
           /\ errorMessage' =
                 IF lastOp'.in.body.error_details \notin {UNDEFINED, <<>>}
                 THEN lastOp'.in.body.error_details
                 ELSE IF lastOp'.in.body.message # <<>>
                 THEN lastOp'.in.body.message
                 ELSE <<"An unknown error occurred during the analysis.">>
           /\ analysisResultUrl' = analysisResultUrl
           /\ htmlReportContent' = htmlReportContent ]_vars

C5_Witness ==
    /\ LastPollParsed
    /\ lastOp.in.body.status = "failed"
    /\ lastOp.in.body.error_details = <<"parse error">>
    /\ lastOp.in.body.message = <<"working">>
    /\ errorMessage = <<"parse error">>
    /\ analysisStatus = "error"

\* C6: a transport failure of a poll (network error or non-success HTTP
\* status) is terminal and not retried: no poll timer is held, taskId is null,
\* the status is error and the failure is the stored error; a 404 stores a text
\* that names the requested task identifier and that no other failure produces.
C6_TransportFailureTerminal ==
    LastPollTransportFailure
    => /\ timer = NoTimer
       /\ taskId = NULL
       /\ analysisStatus = "error"
       /\ Truthy(errorMessage)
       /\ IF ~lastOp.in.net /\ lastOp.in.status = 404
          THEN /\ errorMessage = NotFoundText(lastOp.req.taskId)
               /\ Contains(errorMessage, lastOp.req.taskId)
          ELSE /\ \A tid \in TaskIds : errorMessage # NotFoundText(tid)
               /\ errorMessage =
                     IF lastOp.in.net THEN <<"Failed to fetch">>
                     ELSE IF ~lastOp.in.json THEN <<"Unexpected token < in JSON">>
                     ELSE IF lastOp.in.body.error # UNDEFINED THEN lastOp.in.body.error
                     ELSE <<"HTTP error! status: ", "500">>

C6_Witness ==
    /\ LastPollTransportFailure
    /\ lastOp.in.status = 404
    /\ Contains(errorMessage, <<"abc123">>)
    /\ analysisStatus = "error"

\* C7: called with an empty or whitespace-only prompt, handleStartAnalysis
\* issues no request, reports the validation error, sets no task identifier
\* and leaves no poll timer running.
C7_BlankPromptRejected ==
    [][ (lastOp'.op = "handleStartAnalysis" /\ Trim(lastOp'.in) = <<>>)
        => /\ submitCalls' = submitCalls
           /\ submitsInFlight' = submitsInFlight
           /\ pollCalls' = pollCalls
           /\ pollsInFlight' = pollsInFlight
           /\ errorMessage' = MsgEmptyRequirement
           /\ taskId' = taskId
           /\ timer' = NoTimer ]_vars

C7_Witness ==
    /\ lastOp.op = "handleStartAnalysis"
    /\ lastOp.in = <<" ">>
    /\ errorMessage = MsgEmptyRequirement
    /\ submitCalls = 1

\* C8: called with an empty or whitespace-only input, handleSendMessage issues
\* no request, leaves the transcript unchanged and reports a validation error.
C8_BlankInputRejected ==
    [][ (lastOp'.op = "handleSendMessage" /\ Trim(lastOp'.in) = <<>>)
        => /\ chatCalls' = chatCalls
           /\ chatMessages' = chatMessages
           /\ Truthy(errorMessage') ]_vars

\* C9: a submission with a non-empty prompt issues exactly one request and,
\* no task being current, starts no poll timer by itself; its success sets
\* taskId to the returned identifier, the status to processing and leaves the
\* poll timer running for that identifier; its failure sets the status to
\* error and stores the failure message, leaves a null taskId null, holds no
\* poll timer, issues no poll and no further submission request.
C9_SubmitOutcome ==
    [][ /\ (lastOp'.op = "handleStartAnalysis" /\ lastOp' # lastOp
            /\ Trim(lastOp'.in) # <<>>)
           => /\ submitCalls' = submitCalls + 1
              /\ Cardinality(submitsInFlight') = Cardinality(submitsInFlight) + 1
              /\ pollCalls' = pollCalls
              /\ (taskId = NULL => timer' = NoTimer)
        /\ (submitCalls' # submitCalls) => lastOp'.op = "handleStartAnalysis"
        /\ (SubmitResponseStep /\ ~lastOp'.in.net /\ Ok(lastOp'.in) /\ lastOp'.in.json)
           => /\ taskId' = lastOp'.in.body.task_id
              /\ analysisStatus' = "processing"
              /\ timer' # NoTimer
              /\ timer'.taskId = lastOp'.in.body.task_id
        /\ (SubmitResponseStep /\ (lastOp'.in.net \/ ~Ok(lastOp'.in) \/ ~lastOp'.in.json))
           => /\ analysisStatus' = "error"
              /\ errorMessage' =
                    IF lastOp'.in.net THEN <<"Failed to fetch">>
                    ELSE IF ~lastOp'.in.json THEN <<"Unexpected token < in JSON">>
                    ELSE IF lastOp'.in.body.error # UNDEFINED THEN lastOp'.in.body.error
                    ELSE <<"HTTP error! status: ", "500">>
              /\ (taskId = NULL => taskId' = NULL)
              /\ timer' = NoTimer
              /\ pollCalls' = pollCalls
              /\ submitCalls' = submitCalls ]_vars

\* the first submission succeeded and was polled, the second one failed
C9_Witness ==
    /\ lastOp.op = "StartAnalysisResponse"
    /\ lastOp.in.status = 500
    /\ analysisStatus = "error"
    /\ errorMessage = <<"bad request">>
    /\ taskId = NULL
    /\ submitCalls = 2
    /\ pollCalls = 1

\* C10: analysisStatus only moves along idle -> loading -> processing ->
\* {success, error}, processing repeating on polls and loading going to error
\* on a failed submission; a submission enters loading from any status.
C10_StatusTransitions ==
    [][ analysisStatus' # analysisStatus
        => \/ (lastOp'.op = "handleStartAnalysis" /\ analysisStatus' = "loading"
               /\ errorMessage' = NULL /\ analysisResultUrl' = NULL
               /\ htmlReportContent' = NULL)
           \/ (analysisStatus = "loading" /\ analysisStatus' \in {"processing", "error"}
               /\ SubmitResponseStep)
           \/ (analysisStatus = "processing" /\ analysisStatus' \in {"success", "error"}
               /\ PollResponseStep) ]_vars

\* the task has a result payload: an inline report or a report link
HasPayload == htmlReportContent # NULL \/ analysisResultUrl # NULL

\* C11: in every state whose analysisStatus is terminal (success or error)
\* exactly one of the result payload (htmlReportContent or analysisResultUrl)
\* and the error detail (errorMessage) is set: never both, never neither.
C11_ExactlyOneOutcome ==
    analysisStatus \in {"success", "error"}
    => (HasPayload <=> errorMessage = NULL)

\* C12: no orphaned poll timer.  An interval is held only by a mounted
\* component, for the task taskId names, while analysisStatus is loading or
\* processing: once a terminal status was processed, taskId was cleared or the
\* component was torn down, no interval is held; and a status request is only
\* ever issued by the held interval, for its task.
C12_NoOrphanedTimer ==
    /\ [](timer # NoTimer
          => /\ mounted
             /\ Truthy(taskId)
             /\ timer.taskId = taskId
             /\ analysisStatus \in {"loading", "processing"})
    /\ [][ pollCalls' # pollCalls
           => /\ timer # NoTimer
              /\ \E req \in pollsInFlight' \ pollsInFlight :
                    req.taskId = taskId /\ req.intervalId = timer.id ]_vars

\* the component was torn down while its task was being polled, a status
\* request still outstanding
C12_Witness ==
    /\ ~mounted
    /\ Truthy(taskId)
    /\ analysisStatus = "processing"
    /\ pollsInFlight # {}
    /\ timer = NoTimer

\* C13: with a backend that answers every poll and finalizes the task, the
\* UI does not stay in processing: whenever analysisStatus is processing it
\* later is success or error (or the component has been torn down).
C13_EventuallyTerminal ==
    (mounted /\ analysisStatus = "processing")
    ~> (analysisStatus \in {"success", "error"} \/ ~mounted)

\* this step is the end of a chat turn's stream
ChatEndStep == turns' # turns /\ lastOp'.op = "ChatEnd"

\* C14: when the stream of a chat turn ends without failure, the text of the
\* turn's bot entry is the concatenation of the deltas the stream delivered,
\* and the turn created exactly one bot entry: the transcript holds one user
\* and one bot entry per turn started, however many chunks arrived.
C14_StreamedReply ==
    /\ [][ ChatEndStep
           => \A turn \in turns \ turns' :
                 chatMessages'[turn.entry].text = turn.streamed ]_vars
    /\ [](Len(chatMessages) = 2 * chatCalls)

\* the last step was a call of handleSendMessage that issued a chat request
LastSend == lastOp.op = "handleSendMessage" /\ lastOp.sent

\* the transcript as the call of the last step found it
PriorTranscript == SubSeq(chatMessages, 1, Len(chatMessages) - 2)

\* the request of the last step without its leading system entry
RequestBody ==
    LET msgs == lastOp.messages
    IN IF msgs[1].role = "system" THEN Tail(msgs) ELSE msgs

RoleOf(sender) == IF sender = "user" THEN "user" ELSE "assistant"

\* `body` is: the last six entries of `kept` in their order, each with its
\* sender's role, then the new user turn
WindowThenInput(body, kept, input) ==
    LET n == IF Len(kept) > 6 THEN 6 ELSE Len(kept)
    IN /\ Len(body) = n + 1
       /\ \A i \in 1 .. n :
             body[i] = [role    |-> RoleOf(kept[Len(kept) - n + i].sender),
                        content |-> kept[Len(kept) - n + i].text]
       /\ body[n + 1] = [role |-> "user", content |-> input]
       /\ \A i \in 1 .. Len(body) : body[i].role # "system"
       /\ (Len(kept) = 8 => Len(body) = 7)

\* C15 as stated: after the optional system entry a chat request holds only
\* the last six prior transcript entries with non-empty text (both senders),
\* in their chronological order, then the new user turn; with 8 prior
\* non-empty messages exactly 7 non-system entries are sent.
C15_WindowAsStated ==
    LastSend
    => WindowThenInput(RequestBody,
                       SelectSeq(PriorTranscript, LAMBDA m : m.text # <<>>),
                       lastOp.in)

\* C15: after the optional system entry a chat request holds only the last
\* six prior transcript entries whose text is not blank (not empty once
\* trimmed of whitespace), both senders, in their chronological order, then
\* the new user turn; with 8 prior non-blank messages exactly 7 non-system
\* entries are sent.
C15_Window ==
    LastSend
    => WindowThenInput(RequestBody,
                       SelectSeq(PriorTranscript, LAMBDA m : Trim(m.text) # <<>>),
                       lastOp.in)

\* a request was issued over a transcript of 8 non-blank entries, and carries
\* 7 entries after its system entry
C15_Witness ==
    /\ LastSend
    /\ Len(SelectSeq(PriorTranscript, LAMBDA m : Trim(m.text) # <<>>)) = 8
    /\ Len(lastOp.messages) = 8
    /\ lastOp.messages[1].role = "system"

\* this step is the catch block of a chat turn
ChatErrorStep == turns' # turns /\ lastOp'.op = "ChatError"

\* the text starts with the marker the catch block writes
HasErrorMarker(text) ==
    Len(text) >= Len(ErrorPrefix) /\ SubSeq(text, 1, Len(ErrorPrefix)) = ErrorPrefix

\* C16: when a chat turn fails, the text of its bot entry becomes the error
\* marker followed by the failure's message and that message becomes
\* errorMessage; and the entry of a failed turn keeps its error text: no
\* later step leaves it holding reply text without the marker.
C16_FailureMarked ==
    /\ [][ ChatErrorStep
           => /\ errorMessage' = lastOp'.in.message
              /\ \A turn \in turns \ turns' :
                    chatMessages'[turn.entry].text = ErrorPrefix \o lastOp'.in.message ]_vars
    /\ [][ \A i \in 1 .. Len(chatMessages) :
              HasErrorMarker(chatMessages[i].text)
              => HasErrorMarker(chatMessages'[i].text) ]_vars

\* the send control of the chat is rendered and enabled
SendEnabled == ChatSectionRendered /\ ~SendButtonDisabled

\* C17: the chat is offered only for a task that reached success and has a
\* report: whenever the send control is enabled, analysisStatus is success and
\* htmlReportContent or analysisResultUrl is non-null.
C17_ChatNeedsReport ==
    SendEnabled
    => /\ analysisStatus = "success"
       /\ (htmlReportContent # NULL \/ analysisResultUrl # NULL)

\* the system entries a chat request issued in this state would start with
SystemContext == SystemMessages(htmlReportContent, analysisResultUrl)

\* C18: htmlReportContent and analysisResultUrl are never both non-null; a
\* result field becomes non-null only by a `completed` status response; and a
\* chat request carries at most one system entry, built from the field that
\* is populated.
C18_ExclusiveResults ==
    /\ [](~(htmlReportContent # NULL /\ analysisResultUrl # NULL))
    /\ [][ (\/ (htmlReportContent' # htmlReportContent /\ htmlReportContent' # NULL)
            \/ (analysisResultUrl' # analysisResultUrl /\ analysisResultUrl' # NULL))
           => /\ PollResponseStep
              /\ ~lastOp'.in.net /\ Ok(lastOp'.in) /\ lastOp'.in.json
              /\ lastOp'.in.body.status = "completed" ]_vars
    /\ [](/\ Len(SystemContext) <= 1
          /\ (htmlReportContent # NULL
               => SystemContext = << [role |-> "system",
                                      content |-> SystemPromptInline(htmlReportContent)] >>)
          /\ (analysisResultUrl # NULL
               => SystemContext = << [role |-> "system",
                                      content |-> SystemPromptLink(analysisResultUrl)] >>)
          /\ (htmlReportContent = NULL /\ analysisResultUrl = NULL
               => SystemContext = << >>))

\* two completed responses were processed, the later one for the earlier
\* request: the link it brought is the only result field set
C18_Witness ==
    /\ LastPollParsed
    /\ lastOp.in.body.status = "completed"
    /\ lastOp.req.seq = 1
    /\ pollCalls = 2
    /\ pollsInFlight = {}
    /\ analysisResultUrl # NULL
    /\ htmlReportContent = NULL
    /\ Len(SystemContext) = 1

\* C19: the ids of the transcript entries are unique: no two entries of
\* chatMessages share an id, also when turns start at the same clock reading.
C19_UniqueIds ==
    \A i, j \in 1 .. Len(chatMessages) :
       i # j => chatMessages[i].id # chatMessages[j].id

\* this step applies a chunk or the failure of a chat turn to the transcript
TurnUpdateStep ==
    /\ lastOp' # lastOp
    /\ lastOp'.op \in {"ChatChunk", "ChatError"}

\* C20: the updates of two outstanding chat turns do not touch each other's
\* entries: a chunk or an error of a turn changes no transcript entry but the
\* turn's own bot entry, and the bot entry of every outstanding turn holds
\* exactly the text its own stream has produced.
C20_TurnsIsolated ==
    /\ [][ TurnUpdateStep
           => \A turn \in turns :
                 turn.seq = lastOp'.turn
                 => \A i \in 1 .. Len(chatMessages) :
                       i # turn.entry => chatMessages'[i] = chatMessages[i] ]_vars
    /\ [](\A turn \in turns : chatMessages[turn.entry].text = turn.streamed)

\* C21: the transcript is append-only and append-ordered: no step removes or
\* reorders entries of chatMessages (every entry keeps its position, id and
\* sender), new entries are added at the end only, and the text of a user
\* entry never changes once appended.
C21_AppendOnly ==
    [][ /\ Len(chatMessages') >= Len(chatMessages)
        /\ \A i \in 1 .. Len(chatMessages) :
              /\ chatMessages'[i].id = chatMessages[i].id
              /\ chatMessages'[i].sender = chatMessages[i].sender
              /\ (chatMessages[i].sender = "user"
                  => chatMessages'[i].text = chatMessages[i].text) ]_vars

\* two turns were started at one clock reading and a chunk was applied: the
\* transcript holds both turns in the order of their calls, the user entries
\* as typed
C21_Witness ==
    /\ Len(chatMessages) = 4
    /\ lastOp.op = "ChatChunk"
    /\ chatMessages[1].id = chatMessages[3].id
    /\ chatMessages[1].sender = "user" /\ chatMessages[1].text = <<"why?">>
    /\ chatMessages[3].sender = "user" /\ chatMessages[3].text = <<"why?">>
    /\ chatMessages[2].sender = "bot" /\ chatMessages[2].text = <<"Hi">>

\* this step issues a submission request
SubmitRequestStep == submitCalls' # submitCalls

\* C22: at most one analysis task is outstanding: no submission is triggered
\* while analysisStatus is loading or processing, no submission request is
\* issued while another awaits its response or a task is being polled, and
\* taskId is never overwritten by another identifier.
C22_OneTaskOutstanding ==
    /\ [][ SubmitRequestStep
           => /\ analysisStatus \notin {"loading", "processing"}
              /\ submitsInFlight = {}
              /\ timer = NoTimer ]_vars
    /\ [](Cardinality(submitsInFlight) <= 1)
    /\ [][ taskId # NULL => taskId' \in {taskId, NULL} ]_vars

\* this step processes a status response whose body parsed
ParsedPollStep ==
    /\ PollResponseStep
    /\ ~lastOp'.in.net /\ Ok(lastOp'.in) /\ lastOp'.in.json

\* the status message is the one the response carries or, when it carries
\* none, one of the fixed texts of the callback
StatusMessageFrom(data) ==
    IF Truthy(data.message) THEN statusMessage' = data.message
    ELSE statusMessage' \in {MsgFetchingStatus, MsgTaskWaiting, MsgDoneContent,
                             MsgDoneLink, MsgDoneNoOutput, MsgAnalysisFailed}

\* C23: a poll response `pending` or `processing` keeps the task in flight:
\* taskId and the poll timer are unchanged, no result or error field changes,
\* analysisStatus stays processing and only the status message is updated;
\* and every parsed poll response, terminal or not, updates the status
\* message.
C23_NonTerminalPoll ==
    /\ [][ (ParsedPollStep /\ lastOp'.in.body.status \in {"pending", "processing"})
           => /\ taskId' = taskId
              /\ timer' = timer
              /\ analysisResultUrl' = analysisResultUrl
              /\ htmlReportContent' = htmlReportContent
              /\ errorMessage' = errorMessage
              /\ analysisStatus = "processing"
              /\ analysisStatus' = "processing" ]_vars
    /\ [][ ParsedPollStep => StatusMessageFrom(lastOp'.in.body) ]_vars

\* C24: a poll response `completed` with neither html_content nor html_url
\* still ends the task as success: analysisStatus becomes success, the
\* response sets no result field (both stay as they were: null, after a
\* submission) and no errorMessage, no poll timer is held and taskId is null.
C24_CompletedNoOutput ==
    [][ (/\ ParsedPollStep
         /\ lastOp'.in.body.status = "completed"
         /\ ~Truthy(lastOp'.in.body.html_content)
         /\ ~Truthy(lastOp'.in.body.html_url))
        => /\ analysisStatus' = "success"
           /\ analysisResultUrl' = analysisResultUrl
           /\ htmlReportContent' = htmlReportContent
           /\ errorMessage' = errorMessage
           /\ timer' = NoTimer
           /\ taskId' = NULL ]_vars

\* the first response of a task was `completed` without any report
C24_Witness ==
    /\ LastPollParsed
    /\ lastOp.in.body.status = "completed"
    /\ ~Truthy(lastOp.in.body.html_content)
    /\ ~Truthy(lastOp.in.body.html_url)
    /\ pollCalls = 1
    /\ analysisStatus = "success"
    /\ analysisResultUrl = NULL /\ htmlReportContent = NULL
    /\ errorMessage = NULL
    /\ taskId = NULL /\ timer = NoTimer

\* this step is a call of handleSendMessage that issues a chat request
SendStep == chatCalls' # chatCalls

\* C25: the steps of a chat turn are ordered.  The call that issues the
\* request has appended, in this order, the user's entry with the typed text
\* and the empty bot placeholder; every outstanding turn, so every turn a
\* chunk can be applied to, has its placeholder in the transcript, directly
\* preceded by a user entry.
C25_TurnOrder ==
    /\ [][ SendStep
           => /\ Len(chatMessages') = Len(chatMessages) + 2
              /\ SubSeq(chatMessages', 1, Len(chatMessages)) = chatMessages
              /\ chatMessages'[Len(chatMessages) + 1].sender = "user"
              /\ chatMessages'[Len(chatMessages) + 1].text = userInput
              /\ chatMessages'[Len(chatMessages) + 2].sender = "bot"
              /\ chatMessages'[Len(chatMessages) + 2].text = <<>>
              /\ \E turn \in turns' \ turns :
                    /\ turn.entry = Len(chatMessages) + 2
                    /\ turn.botMessageId = chatMessages'[turn.entry].id ]_vars
    /\ [](\A turn \in turns :
             /\ turn.entry \in 2 .. Len(chatMessages)
             /\ chatMessages[turn.entry].sender = "bot"
             /\ chatMessages[turn.entry].id = turn.botMessageId
             /\ chatMessages[turn.entry - 1].sender = "user")

\* a second turn was started while the first is outstanding: its placeholder
\* stands last, empty, right after its user entry
C25_Witness ==
    /\ LastSend
    /\ Cardinality(turns) = 2
    /\ Len(chatMessages) = 4
    /\ chatMessages[3].sender = "user" /\ chatMessages[3].text = lastOp.in
    /\ chatMessages[4].sender = "bot" /\ chatMessages[4].text = <<>>

\* `a` is a prefix of `b`
IsPrefix(a, b) == Len(a) <= Len(b) /\ SubSeq(b, 1, Len(a)) = a

\* C26: a bot entry grows monotonically and is final once its stream is over:
\* the chunk of a turn leaves the turn's bot entry with a text the previous
\* text is a prefix of, and no step changes the text of a bot entry whose turn
\* is not outstanding any more.
C26_MonotoneGrowth ==
    /\ [][ (lastOp' # lastOp /\ lastOp'.op = "ChatChunk")
           => \A turn \in turns :
                 turn.seq = lastOp'.turn
                 => IsPrefix(chatMessages[turn.entry].text,
                             chatMessages'[turn.entry].text) ]_vars
    /\ [][ \A i \in 1 .. Len(chatMessages) :
              (\A turn \in turns : turn.entry # i)
              => chatMessages'[i].text = chatMessages[i].text ]_vars

\* C27: while the component is mounted, analysisStatus = processing implies a
\* non-null taskId and a poll timer held for that taskId; and taskId is
\* non-null only while analysisStatus is processing.
C27_ProcessingIsPolled ==
    mounted
    => /\ (analysisStatus = "processing"
           => /\ Truthy(taskId)
              /\ timer # NoTimer
              /\ timer.taskId = taskId)
       /\ (taskId # NULL => analysisStatus = "processing")

\* this step re-runs the poll effect: one of its dependencies changed
EffectRerunStep == taskId' # taskId \/ analysisStatus' # analysisStatus

\* C28: one poll timer at a time, polling the task it was created for.  A
\* re-run of the poll effect never leaves the interval held before it held
\* (it is cancelled, and any interval held afterwards is a new one); an
\* interval is created with a handle never used before, for the taskId
\* current at that step; and every status request is issued by the held
\* interval for the taskId it was created with.
C28_OneTimer ==
    /\ [][ (EffectRerunStep /\ timer # NoTimer) => timer' # timer ]_vars
    /\ [][ (timer' # timer /\ timer' # NoTimer)
           => /\ timer'.taskId = taskId'
              /\ timer'.id = nextIntervalId
              /\ nextIntervalId' = nextIntervalId + 1 ]_vars
    /\ [][ pollCalls' # pollCalls
           => /\ timer' = timer
              /\ \E req \in pollsInFlight' \ pollsInFlight :
                    req.intervalId = timer.id /\ req.taskId = timer.taskId ]_vars

\* the second interval of the run, created for a second task, has issued a
\* status request for that task
C28_Witness ==
    /\ timer # NoTimer
    /\ timer.id = 2
    /\ submitCalls = 2
    /\ \E req \in pollsInFlight :
          req.intervalId = 2 /\ req.taskId = timer.taskId /\ req.taskId = taskId

\* a step of a chat turn: a call of handleSendMessage, a chunk of its stream,
\* the end of the stream or its failure
ChatTurnStep ==
    \/ SendStep
    \/ turns' # turns
    \/ chunkCalls' # chunkCalls
    \/ lastOp' # lastOp /\ lastOp'.op = "handleSendMessage"

\* C29: no step of a chat turn, successful or failed, changes analysisStatus,
\* taskId, htmlReportContent or analysisResultUrl; of the component's state a
\* turn changes chatMessages, userInput, statusMessage and errorMessage only.
C29_ChatLeavesTask ==
    [][ ChatTurnStep
        => /\ analysisStatus' = analysisStatus
           /\ taskId' = taskId
           /\ htmlReportContent' = htmlReportContent
           /\ analysisResultUrl' = analysisResultUrl
           /\ reportRequirementsInput' = reportRequirementsInput ]_vars

\* two turns are over, the last one failed, and the task is as the completed
\* poll left it
C29_Witness ==
    /\ lastOp.op = "ChatError"
    /\ chatCalls = 2
    /\ turns = {}
    /\ errorMessage # NULL
    /\ statusMessage = MsgChatFailed
    /\ analysisStatus = "success"
    /\ taskId = NULL

\* C31: a chat turn whose stream ends without failure having delivered no
\* non-empty delta leaves its bot entry in the transcript, with empty text and
\* no error marker; and no chat request carries an entry of empty text in its
\* history (every message before the new user turn has text).
C31_EmptyReplyKept ==
    /\ [][ ChatEndStep
           => \A turn \in turns \ turns' :
                 turn.streamed = <<>>
                 => /\ Len(chatMessages') = Len(chatMessages)
                    /\ chatMessages'[turn.entry].id = turn.botMessageId
                    /\ chatMessages'[turn.entry].sender = "bot"
                    /\ chatMessages'[turn.entry].text = <<>>
                    /\ ~HasErrorMarker(chatMessages'[turn.entry].text) ]_vars
    /\ [](LastSend
          => \A i \in 1 .. Len(RequestBody) - 1 : RequestBody[i].content # <<>>)

RECURSIVE Without(_, _)
\* `files` read from its end, the files of that name left out
Without(files, name) ==
    IF files = <<>> THEN <<>>
    ELSE LET last == files[Len(files)]
             rest == Without(SubSeq(files, 1, Len(files) - 1), name)
         IN IF last.name = name THEN rest ELSE Append(rest, last)

\* this step is a call of a file handler
FileStep(op) == lastOp' # lastOp /\ lastOp'.op = op

\* C32: removeFile(name) removes every uploaded file of that name and keeps
\* the other files in their order; choosing or dropping files appends them
\* to the list as they come, duplicates included; and a submission request
\* carries the prompt only and leaves the list as it is.
C32_FileList ==
    /\ [][ FileStep("removeFile")
           => /\ \A i \in 1 .. Len(uploadedFiles') :
                    uploadedFiles'[i].name # lastOp'.in
              /\ uploadedFiles' = Without(uploadedFiles, lastOp'.in) ]_vars
    /\ [][ (FileStep("handleFileSelect") \/ FileStep("handleDrop"))
           => /\ Len(uploadedFiles') = Len(uploadedFiles) + Len(lastOp'.in)
              /\ SubSeq(uploadedFiles', 1, Len(uploadedFiles)) = uploadedFiles
              /\ SubSeq(uploadedFiles', Len(uploadedFiles) + 1, Len(uploadedFiles'))
                    = lastOp'.in ]_vars
    /\ [][ SubmitRequestStep
           => /\ uploadedFiles' = uploadedFiles
              /\ submitsInFlight' \ submitsInFlight =
                    {[seq |-> submitCalls', prompt |-> reportRequirementsInput]} ]_vars

\* the files named a.pdf were removed from a list that keeps its b.txt, while
\* a submission is outstanding
C32_Witness ==
    /\ lastOp.op = "removeFile"
    /\ lastOp.in = "a.pdf"
    /\ uploadedFiles = << [name |-> "b.txt", size |-> 1] >>
    /\ submitCalls = 1
    /\ submitsInFlight # {}
====
